---- MODULE Spec2Model ----
(***************************************************************************)
(* Doctor Planet Pro (src/app.js): the callGemini retry loop, the two UI   *)
(* entry points that invoke it (handleScan, Consult AI) and the auth and   *)
(* Firestore collaborators they read and write.                            *)
(***************************************************************************)
EXTENDS Integers, Sequences, FiniteSets, Bags, TLC

(* ------------------------------------------------------------------ *)
(* JSON values. Every value is a record of the same shape, so values   *)
(* of different JSON types can be compared: kind is the JSON type, lit *)
(* the literal of a scalar, fields the members of an object as         *)
(* <<name, type, literal>> triples.                                    *)
(* ------------------------------------------------------------------ *)

JScalar(k, l) == [kind |-> k, lit |-> l, fields |-> {}]

JObject(fs) == [kind |-> "object", lit |-> "", fields |-> fs]

Undefined == JScalar("undefined", "")

(* The five properties of the responseSchema the request declares. *)
SchemaFields == {"name", "plant", "symptoms", "treatment", "severity"}

(* Inner payload texts an upstream candidate may carry. *)
TextEarlyBlight == "{\"name\":\"Early Blight\",\"plant\":\"Tomato\",\"symptoms\":\"Target-like brown spots.\",\"treatment\":\"Use copper fungicides.\",\"severity\":\"High\"}"

TextLateBlight == "{\"name\":\"Late Blight\",\"plant\":\"Potato\",\"symptoms\":\"Dark patches.\",\"treatment\":\"Destroy infected plants.\"}"

TextNoTreatment == "{\"name\":\"Rice Blast\",\"plant\":\"Rice\",\"symptoms\":\"Diamond-shaped lesions.\"}"

TextNumericName == "{\"name\":7,\"plant\":\"Wheat\",\"symptoms\":\"Pustules.\",\"treatment\":\"Foliar spray.\"}"

TextNumericSeverity == "{\"name\":\"Corn Smut\",\"plant\":\"Corn\",\"symptoms\":\"Galls.\",\"treatment\":\"Crop rotation.\",\"severity\":3}"

TextEmptyObject == "{}"

TextNumber == "42"

TextNull == "null"

TextArray == "[]"

TextString == "\"blight\""

TextProse == "The leaf shows early blight."

EarlyBlight ==
    JObject({ <<"name", "string", "Early Blight">>,
              <<"plant", "string", "Tomato">>,
              <<"symptoms", "string", "Target-like brown spots.">>,
              <<"treatment", "string", "Use copper fungicides.">>,
              <<"severity", "string", "High">> })

LateBlight ==
    JObject({ <<"name", "string", "Late Blight">>,
              <<"plant", "string", "Potato">>,
              <<"symptoms", "string", "Dark patches.">>,
              <<"treatment", "string", "Destroy infected plants.">> })

(* JSON.parse on the texts above: the parsed value, or a SyntaxError. *)
JSONParse(text) ==
    CASE text = TextEarlyBlight -> [threw |-> FALSE, value |-> EarlyBlight]
      [] text = TextLateBlight -> [threw |-> FALSE, value |-> LateBlight]
      [] text = TextNoTreatment ->
            [threw |-> FALSE,
             value |-> JObject({ <<"name", "string", "Rice Blast">>,
                                 <<"plant", "string", "Rice">>,
                                 <<"symptoms", "string", "Diamond-shaped lesions.">> })]
      [] text = TextNumericName ->
            [threw |-> FALSE,
             value |-> JObject({ <<"name", "number", "7">>,
                                 <<"plant", "string", "Wheat">>,
                                 <<"symptoms", "string", "Pustules.">>,
                                 <<"treatment", "string", "Foliar spray.">> })]
      [] text = TextNumericSeverity ->
            [threw |-> FALSE,
             value |-> JObject({ <<"name", "string", "Corn Smut">>,
                                 <<"plant", "string", "Corn">>,
                                 <<"symptoms", "string", "Galls.">>,
                                 <<"treatment", "string", "Crop rotation.">>,
                                 <<"severity", "number", "3">> })]
      [] text = TextEmptyObject -> [threw |-> FALSE, value |-> JObject({})]
      [] text = TextNumber -> [threw |-> FALSE, value |-> JScalar("number", "42")]
      [] text = TextNull -> [threw |-> FALSE, value |-> JScalar("null", "null")]
      [] text = TextArray -> [threw |-> FALSE, value |-> JScalar("array", "[]")]
      [] text = TextString -> [threw |-> FALSE, value |-> JScalar("string", "blight")]
      [] OTHER -> [threw |-> TRUE, value |-> Undefined]

(* ------------------------------------------------------------------ *)
(* Upstream responses. net = "error" is a rejected fetch. Otherwise    *)
(* the response has a status and a body; body.valid says whether       *)
(* res.json() parses it, body.candidates is data.candidates (empty     *)
(* also when the envelope has none), a candidate is its content.parts, *)
(* a part is <<"text", t>> or a part without text.                     *)
(* ------------------------------------------------------------------ *)

NoBody == [valid |-> FALSE, candidates |-> <<>>]

Envelope(cands) == [valid |-> TRUE, candidates |-> cands]

TextPart(t) == <<"text", t>>

OtherPart == <<"other">>

Rejected == [net |-> "error", status |-> 0, body |-> NoBody]

Reply(status, body) == [net |-> "ok", status |-> status, body |-> body]

ReplyText(status, t) == Reply(status, Envelope(<< <<TextPart(t)>> >>))

PayloadTexts ==
    { TextEarlyBlight, TextLateBlight, TextNoTreatment, TextNumericName,
      TextNumericSeverity, TextEmptyObject, TextNumber, TextNull, TextArray,
      TextString, TextProse }

Responses ==
    { Rejected,
      Reply(200, NoBody),
      Reply(200, Envelope(<<>>)),
      Reply(200, Envelope(<< <<OtherPart>> >>)),
      Reply(500, Envelope(<<>>)),
      ReplyText(500, TextEarlyBlight) }
    \cup { ReplyText(200, t) : t \in PayloadTexts }

(* ------------------------------------------------------------------ *)
(* State.                                                              *)
(* ------------------------------------------------------------------ *)

VARIABLES
    core,            \* the callGemini invocation of the client run on its own
    scanRun,         \* handleScan in flight: its stage, its call, the user and image it closed over
    consultRuns,     \* the bag of running callGemini invocations started by Consult AI
    user,            \* useState(null): the signed-in user's uid, or NoUser
    authLoading,     \* useState(true)
    view,            \* useState('login')
    selectedDisease, \* useState(null): the record the detail sheet displays
    isScanning,      \* useState(false)
    previewImg,      \* useState(null)
    authUser,        \* Firebase auth's current user
    lastUid,         \* the number of accounts Firebase auth has created
    authReady,       \* whether onAuthStateChanged has delivered the initial state
    loginPending,    \* whether handleLogin's signInAnonymously is in flight
    store,           \* Firestore: each user's scans collection
    notice,          \* the message of the alert() the last step raised, or "none"
    scans,           \* useState([]): the records the History tab lists
    listeners,       \* the users whose scans collection has an active onSnapshot listener
    mounted,         \* whether the App component is mounted
    race             \* history: the consultations started during the scan's inference, and what they delivered

coreVars == <<core>>

runVars == <<scanRun, consultRuns>>

authVars == <<user, authLoading, view, authUser, lastUid, authReady, loginPending>>

uiVars == <<selectedDisease, isScanning, previewImg, notice>>

feedVars == <<scans, listeners, mounted>>

histVars == <<race>>

appVars == <<runVars, authVars, uiVars, store, feedVars, histVars>>

vars == <<coreVars, appVars>>

(* imageData: null (the parameter's default) or a data URL, kept as the *)
(* list of its comma-separated segments (what split(',') returns).      *)
NoImage == [given |-> FALSE, segs |-> <<>>]

LeafImage == [given |-> TRUE, segs |-> <<"data:image/png;base64", "iVBORw0KGgo=">>]

EmptyFileImage == [given |-> TRUE, segs |-> <<"data:">>]

Images == {NoImage, LeafImage, EmptyFileImage}

ScanPrompt == "Analyze this plant leaf for diseases. Provide scientific details."

ConsultPrompt == "Why are my tomato leaves yellow?"

(* !!imageData *)
IsImage(imageData) == imageData.given /\ imageData.segs # <<"">>

(* The inlineData part: data is imageData.split(',')[1], and a data    *)
(* of undefined is left out of the serialised request.                 *)
InlinePart(imageData) ==
    IF Len(imageData.segs) >= 2
    THEN <<"inlineData", "image/png", imageData.segs[2]>>
    ELSE <<"inlineData", "image/png">>

PartsAlwaysInline(prompt, imageData) == <<TextPart(prompt), InlinePart(imageData)>>

(* payload.contents[0].parts *)
Parts(prompt, imageData) ==
    <<TextPart(prompt)>> \o (IF IsImage(imageData) THEN <<InlinePart(imageData)>> ELSE <<>>)

Payload(prompt, imageData) ==
    [parts |-> Parts(prompt, imageData),
     responseMimeType |-> "application/json",
     schemaType |-> "OBJECT",
     schemaProperties |-> SchemaFields]

NoError == "none"

NoCause == [message |-> "", cause |-> NoError]

(* A callGemini invocation that is not running. prompt, imageData,    *)
(* payload, i, e are the frame of the call; result and error what it   *)
(* returned or threw; requests, responses, delays, fired and inflight  *)
(* what the transport and the clock saw of it: the requests sent (with *)
(* the i they were sent at), the responses delivered, the timers set,  *)
(* the number of timers fired and the number of requests in flight.    *)
IdleCall ==
    [pc |-> "idle", prompt |-> "", imageData |-> NoImage,
     payload |-> Payload("", NoImage), i |-> 0, e |-> NoError,
     result |-> Undefined, error |-> NoCause,
     requests |-> <<>>, responses |-> <<>>, delays |-> <<>>,
     fired |-> 0, inflight |-> 0]

(* for (let i = 0; i < 5; i++) *)
MaxAttempts == 5

BackoffLinear(i) == (i + 1) * 1000

(* Math.pow(2, i) * 1000 *)
Backoff(i) == (2 ^ i) * 1000

(* fetch(url, { method: 'POST', body: JSON.stringify(payload) }) *)
IssueFetch(c) ==
    [c EXCEPT !.pc = "fetching",
              !.requests = Append(@, [attempt |-> c.i, payload |-> c.payload]),
              !.inflight = @ + 1]

(* The call up to its first await: the payload is built and the first *)
(* request is sent with i = 0.                                         *)
CallGemini(prompt, imageData) ==
    IssueFetch([IdleCall EXCEPT !.prompt = prompt, !.imageData = imageData,
                                !.payload = Payload(prompt, imageData)])

(* The try block on one response: fetch rejects, res.json() throws,    *)
(* data.candidates[0].content.parts[0] throws a TypeError, JSON.parse  *)
(* throws on an absent text (it parses "undefined") or on a text that  *)
(* is not JSON; otherwise the parsed value is returned as it is. The   *)
(* status of the response is never read.                               *)
TryBody(resp) ==
    IF resp.net = "error" THEN [threw |-> TRUE, e |-> "NetworkError", value |-> Undefined]
    ELSE IF ~resp.body.valid
    THEN [threw |-> TRUE, e |-> "EnvelopeSyntaxError", value |-> Undefined]
    ELSE IF resp.body.candidates = <<>> \/ resp.body.candidates[1] = <<>>
    THEN [threw |-> TRUE, e |-> "TypeError", value |-> Undefined]
    ELSE IF resp.body.candidates[1][1][1] # "text"
    THEN [threw |-> TRUE, e |-> "PayloadSyntaxError", value |-> Undefined]
    ELSE LET p == JSONParse(resp.body.candidates[1][1][2])
         IN  IF p.threw
             THEN [threw |-> TRUE, e |-> "PayloadSyntaxError", value |-> Undefined]
             ELSE [threw |-> FALSE, e |-> NoError, value |-> p.value]

OnResponseBackoffAlways(c, resp) ==
    LET t == TryBody(resp)
        got == [c EXCEPT !.responses = Append(@, resp), !.inflight = @ - 1,
                         !.delays = Append(@, Backoff(c.i))]
    IN  IF t.threw
        THEN [got EXCEPT !.pc = "waiting", !.e = t.e]
        ELSE [got EXCEPT !.pc = "returned", !.result = t.value]

OnResponseEagerRetry(c, resp) ==
    LET t == TryBody(resp)
        got == [c EXCEPT !.responses = Append(@, resp), !.inflight = @ - 1]
    IN  IF t.threw
        THEN IF c.i + 1 < MaxAttempts
             THEN IssueFetch([got EXCEPT !.i = c.i + 1])
             ELSE [got EXCEPT !.pc = "waiting", !.e = t.e,
                              !.delays = Append(@, Backoff(c.i))]
        ELSE [got EXCEPT !.pc = "returned", !.result = t.value]

(* OnResponse that throws at once when the last attempt fails. *)
OnResponseNoFinalWait(c, resp) ==
    LET t == TryBody(resp)
        got == [c EXCEPT !.responses = Append(@, resp), !.inflight = @ - 1]
    IN  IF t.threw
        THEN IF c.i + 1 < MaxAttempts
             THEN [got EXCEPT !.pc = "waiting", !.e = t.e,
                              !.delays = Append(@, Backoff(c.i))]
             ELSE [got EXCEPT !.pc = "thrown", !.i = c.i + 1,
                              !.error = [message |-> "AI Service Unavailable", cause |-> NoError]]
        ELSE [got EXCEPT !.pc = "returned", !.result = t.value]

(* The request of attempt i resolves with resp: return the parsed      *)
(* value, or catch e and start the timer of Math.pow(2, i) * 1000 ms.  *)
OnResponse(c, resp) ==
    LET t == TryBody(resp)
        got == [c EXCEPT !.responses = Append(@, resp), !.inflight = @ - 1]
    IN  IF t.threw
        THEN [got EXCEPT !.pc = "waiting", !.e = t.e,
                         !.delays = Append(@, Backoff(c.i))]
        ELSE [got EXCEPT !.pc = "returned", !.result = t.value]

OnTimerSixAttempts(c) ==
    IF c.i + 1 <= MaxAttempts
    THEN IssueFetch([c EXCEPT !.i = c.i + 1, !.e = NoError, !.fired = @ + 1])
    ELSE [c EXCEPT !.pc = "thrown", !.i = c.i + 1, !.e = NoError, !.fired = @ + 1,
                   !.error = [message |-> "AI Service Unavailable", cause |-> NoError]]

(* The timer of the catch block fires: i++, then the next request, or, *)
(* with the loop condition false, throw new Error(...) with no cause.  *)
OnTimer(c) ==
    IF c.i + 1 < MaxAttempts
    THEN IssueFetch([c EXCEPT !.i = c.i + 1, !.e = NoError, !.fired = @ + 1])
    ELSE [c EXCEPT !.pc = "thrown", !.i = c.i + 1, !.e = NoError, !.fired = @ + 1,
                   !.error = [message |-> "AI Service Unavailable", cause |-> NoError]]

Settled(c) == c.pc \in {"idle", "returned", "thrown"}

(* ------------------------------------------------------------------ *)
(* The application: auth, the scan and consultation entry points,      *)
(* Firestore. The active tab is left out: switching tabs is always     *)
(* possible on the app screen and changes nothing else, so a click on  *)
(* a tab's button stands for the switch to the tab and the click.      *)
(* ------------------------------------------------------------------ *)

(* The most accounts created, documents stored and consultations      *)
(* running at once that the model follows.                             *)
MaxUsers == 1

MaxDocs == 1

MaxConsults == 1

(* useState(null) for user; onAuthStateChanged delivers null on sign-out. *)
NoUser == 0

Uids == 1..MaxUsers

JNull == JScalar("null", "null")

(* ENCYCLOPEDIA[0] *)
LibraryEarlyBlight ==
    JObject({ <<"name", "string", "Early Blight">>,
              <<"plant", "string", "Tomato">>,
              <<"severity", "string", "High">>,
              <<"symptoms", "string", "Target-like brown spots on older leaves.">>,
              <<"treatment", "string", "Use copper fungicides and improve airflow.">> })

Encyclopedia == {LibraryEarlyBlight}

(* JavaScript truthiness of a JSON value. *)
Truthy(v) ==
    /\ v.kind \notin {"null", "undefined"}
    /\ ~(v.kind = "number" /\ v.lit = "0")
    /\ ~(v.kind = "string" /\ v.lit = "")
    /\ ~(v.kind = "boolean" /\ v.lit = "false")

(* What the upstream answers to the application's requests. *)
AppResponses == {Rejected, ReplyText(200, TextEarlyBlight), ReplyText(200, TextLateBlight)}

(* A returned call as handleScan keeps it: its result. The frame of    *)
(* the call is gone.                                                   *)
Retire(c) == [IdleCall EXCEPT !.pc = c.pc, !.result = c.result]

IdleScan == [stage |-> "idle", call |-> IdleCall, user |-> NoUser, img |-> NoImage]

(* The document handleScan adds: { ...result, timestamp, imageUrl }.   *)
(* Spreading an object copies its members, spreading a string gives    *)
(* one member per character (kept as one), any other value gives none. *)
(* The images of the model are shorter than the 1000 characters that   *)
(* substring(0, 1000) keeps.                                           *)
ScanDoc(result, img) ==
    [data |-> IF result.kind = "object" THEN result.fields
              ELSE IF result.kind = "string" THEN {<<"0", "string", result.lit>>}
              ELSE {},
     hasTimestamp |-> TRUE,
     imageUrl |-> img.segs]

(* The number of documents in the collections of users 1..n. *)
RECURSIVE TotalDocs(_, _)
TotalDocs(st, n) == IF n = 0 THEN 0 ELSE Len(st[n]) + TotalDocs(st, n - 1)

(* Nothing is rendered once the component is unmounted. *)
(* if (authLoading) return the spinner *)
(* if (!user || view === 'login' || view === 'signup') return the login screen *)
AppScreen == mounted /\ ~authLoading /\ user # NoUser /\ view \notin {"login", "signup"}

LoginScreen == mounted /\ ~authLoading /\ ~AppScreen

(* The history of a scan's race with the consultations, kept when on  *)
(* is set (in SpecRace): after is the bag of the running consultations *)
(* that were started while the scan's callGemini was running; newer is *)
(* the record in the displayed slot if one of them delivered it, else  *)
(* undefined; overwrote is, while the scan saves, the record of that   *)
(* kind that the scan's own result replaced, else undefined.           *)
NoRace == [on |-> FALSE, after |-> EmptyBag, newer |-> Undefined, overwrote |-> Undefined]

RaceOver == [NoRace EXCEPT !.on = race.on]

Recorded(r) == IF race.on THEN r ELSE race

(* Whether the running consultation c that takes a step was started    *)
(* after the scan: either, when equal consultations of both kinds run. *)
StartedAfterScan(c) ==
    {b \in BOOLEAN : IF b THEN BagIn(c, race.after)
                              ELSE CopiesIn(c, consultRuns) > CopiesIn(c, race.after)}

(* race.after once consultation c has become r, or is gone. *)
AfterStep(c, r, stays, later) ==
    IF later
    THEN (race.after (-) SetToBag({c})) (+) (IF stays THEN SetToBag({r}) ELSE EmptyBag)
    ELSE race.after

Init ==
    /\ core = IdleCall
    /\ scanRun = IdleScan
    /\ consultRuns = EmptyBag
    /\ user = NoUser
    /\ authLoading = TRUE
    /\ view = "login"
    /\ selectedDisease = JNull
    /\ isScanning = FALSE
    /\ previewImg = NoImage
    /\ authUser = NoUser
    /\ lastUid = 0
    /\ authReady = FALSE
    /\ loginPending = FALSE
    /\ store = [u \in Uids |-> <<>>]
    /\ notice = "none"
    /\ scans = <<>>
    /\ listeners = {}
    /\ mounted = TRUE
    /\ race = NoRace

(* The same, with the history of the race kept. *)
InitRace ==
    /\ core = IdleCall
    /\ scanRun = IdleScan
    /\ consultRuns = EmptyBag
    /\ user = NoUser
    /\ authLoading = TRUE
    /\ view = "login"
    /\ selectedDisease = JNull
    /\ isScanning = FALSE
    /\ previewImg = NoImage
    /\ authUser = NoUser
    /\ lastUid = 0
    /\ authReady = FALSE
    /\ loginPending = FALSE
    /\ store = [u \in Uids |-> <<>>]
    /\ notice = "none"
    /\ scans = <<>>
    /\ listeners = {}
    /\ mounted = TRUE
    /\ race = [NoRace EXCEPT !.on = TRUE]

(* The step raises no alert. *)
NoAlert == notice' = "none"

(* The Firestore Effect without its cleanup. *)
EffectListenersLeaky(ls, prev, u) ==
    ls \cup (IF u # NoUser THEN {u} ELSE {})

(* The listeners left by running the Firestore Effect for user u after *)
(* the cleanup of its last run, which was for user prev: unsubscribe() *)
(* of that run's listener (it has none if prev is null), and, if u is  *)
(* not null, onSnapshot on u's collection.                             *)
EffectListeners(ls, prev, u) ==
    (ls \ {prev}) \cup (IF u # NoUser THEN {u} ELSE {})

(* The onAuthStateChanged callback, delivered while the Auth Effect's  *)
(* subscription stands, with the render it causes and the Firestore    *)
(* Effect of that render, which runs if user has changed: React runs   *)
(* the effects of a render before it renders any other update, and no  *)
(* handler of the component runs in between.                           *)
AuthStateChanged(u) ==
    /\ mounted
    /\ user' = u
    /\ authLoading' = FALSE
    /\ view' = IF u # NoUser THEN "app" ELSE view
    /\ listeners' = IF u # user THEN EffectListeners(listeners, user, u) ELSE listeners

(* The first delivery of the auth state: null, or the user of          *)
(* __initial_auth_token once signInWithCustomToken has signed it in.   *)
AuthReady(token) ==
    /\ ~authReady
    /\ authReady' = TRUE
    /\ IF token
       THEN /\ lastUid < MaxUsers
            /\ lastUid' = lastUid + 1
            /\ authUser' = lastUid + 1
            /\ AuthStateChanged(lastUid + 1)
       ELSE /\ UNCHANGED <<lastUid, authUser>>
            /\ AuthStateChanged(NoUser)
    /\ NoAlert
    /\ UNCHANGED <<coreVars, histVars, runVars, selectedDisease, isScanning, previewImg, store, loginPending, scans, mounted>>

(* handleLogin up to its await. *)
HandleLogin ==
    /\ LoginScreen
    /\ authLoading' = TRUE
    /\ loginPending' = TRUE
    /\ NoAlert
    /\ UNCHANGED <<coreVars, histVars, runVars, selectedDisease, isScanning, previewImg, store, user, view, authUser, lastUid, authReady, feedVars>>

(* signInAnonymously of handleLogin resolves: a new anonymous account  *)
(* is signed in and the callback runs, or the existing user is kept;   *)
(* or it rejects and nothing handles the rejection.                    *)
LoginResolve(ok) ==
    /\ loginPending
    /\ loginPending' = FALSE
    /\ IF ok /\ authUser = NoUser
       THEN /\ lastUid < MaxUsers
            /\ lastUid' = lastUid + 1
            /\ authUser' = lastUid + 1
            /\ AuthStateChanged(lastUid + 1)
       ELSE UNCHANGED <<lastUid, authUser, user, authLoading, view, listeners>>
    /\ NoAlert
    /\ UNCHANGED <<coreVars, histVars, runVars, selectedDisease, isScanning, previewImg, store, authReady, scans, mounted>>

(* Guest Access: signInAnonymously(auth) succeeds. The click changes   *)
(* nothing by itself and a rejection is not handled.                   *)
GuestAccess ==
    /\ LoginScreen
    /\ authUser = NoUser
    /\ lastUid < MaxUsers
    /\ lastUid' = lastUid + 1
    /\ authUser' = lastUid + 1
    /\ AuthStateChanged(lastUid + 1)
    /\ NoAlert
    /\ UNCHANGED <<coreVars, histVars, runVars, selectedDisease, isScanning, previewImg, store, authReady, loginPending, scans, mounted>>

(* The header's button: signOut(auth), then the callback with null. *)
SignOut ==
    /\ AppScreen
    /\ authUser # NoUser
    /\ authUser' = NoUser
    /\ AuthStateChanged(NoUser)
    /\ NoAlert
    /\ UNCHANGED <<coreVars, histVars, runVars, selectedDisease, isScanning, previewImg, store, lastUid, authReady, loginPending, scans, mounted>>

(* onFileChange: reader.onload sets the preview to the data URL. *)
OnFileChange(img) ==
    /\ AppScreen
    /\ previewImg' = img
    /\ NoAlert
    /\ UNCHANGED <<coreVars, histVars, runVars, authVars, store, selectedDisease, isScanning, feedVars>>

(* A Disease Library entry is clicked. *)
SelectLibraryEntry(d) ==
    /\ AppScreen
    /\ selectedDisease' = d
    /\ NoAlert
    /\ UNCHANGED <<coreVars, histVars, runVars, authVars, store, isScanning, previewImg, feedVars>>

(* The detail sheet, rendered while selectedDisease is truthy, is closed. *)
CloseReport ==
    /\ AppScreen
    /\ Truthy(selectedDisease)
    /\ selectedDisease' = JNull
    /\ NoAlert
    /\ UNCHANGED <<coreVars, histVars, runVars, authVars, store, isScanning, previewImg, feedVars>>

ScanSkipsSave(u) == "idle"

(* handleScan after setSelectedDisease(result): if (user) await addDoc, *)
(* else straight to finally.                                            *)
ScanAfterInference(u) == IF u # NoUser THEN "saving" ELSE "idle"

(* handleScan without its check of previewImg, behind a button that   *)
(* is not disabled without a preview.                                  *)
HandleScanUnguarded ==
    /\ AppScreen
    /\ ~isScanning
    /\ TotalDocs(store, MaxUsers) < MaxDocs
    /\ isScanning' = TRUE
    /\ scanRun' = [stage |-> "inference", call |-> CallGemini(ScanPrompt, previewImg),
                   user |-> user, img |-> previewImg]
    /\ NoAlert
    /\ UNCHANGED <<coreVars, histVars, consultRuns, authVars, store, selectedDisease, previewImg, feedVars>>

(* Run AI Analysis (disabled without a preview or while scanning):     *)
(* handleScan up to the first await inside callGemini. user and        *)
(* previewImg are the ones of the render the handler closed over.      *)
HandleScan ==
    /\ AppScreen
    /\ IsImage(previewImg)
    /\ ~isScanning
    /\ TotalDocs(store, MaxUsers) < MaxDocs
    /\ isScanning' = TRUE
    /\ scanRun' = [stage |-> "inference", call |-> CallGemini(ScanPrompt, previewImg),
                   user |-> user, img |-> previewImg]
    /\ NoAlert
    /\ UNCHANGED <<coreVars, histVars, consultRuns, authVars, store, selectedDisease, previewImg, feedVars>>

(* ScanRespond with a scan that abandons its result when the slot     *)
(* holds the record of a consultation started after it.                *)
ScanRespondYields(resp) ==
    /\ scanRun.stage = "inference"
    /\ scanRun.call.pc = "fetching"
    /\ LET c == OnResponse(scanRun.call, resp) IN
       IF c.pc = "returned"
       THEN /\ selectedDisease' = IF race.newer # Undefined /\ selectedDisease = race.newer
                                  THEN selectedDisease
                                  ELSE c.result
            /\ scanRun' = [scanRun EXCEPT !.call = Retire(c), !.stage = "saving"]
            /\ isScanning' = TRUE
            /\ race' = RaceOver
       ELSE /\ scanRun' = [scanRun EXCEPT !.call = c]
            /\ UNCHANGED <<selectedDisease, isScanning, race>>
    /\ NoAlert
    /\ UNCHANGED <<coreVars, consultRuns, authVars, store, previewImg, feedVars>>

(* The scan's request resolves. On a return: setSelectedDisease(result), *)
(* then addDoc is sent, or (no user) finally runs.                       *)
ScanRespond(resp) ==
    /\ scanRun.stage = "inference"
    /\ scanRun.call.pc = "fetching"
    /\ LET c == OnResponse(scanRun.call, resp) IN
       IF c.pc = "returned"
       THEN /\ selectedDisease' = c.result
            /\ scanRun' = IF ScanAfterInference(scanRun.user) = "saving"
                          THEN [scanRun EXCEPT !.call = Retire(c), !.stage = "saving"]
                          ELSE IdleScan
            /\ isScanning' = (ScanAfterInference(scanRun.user) = "saving")
            /\ race' = Recorded([RaceOver EXCEPT !.overwrote =
                                    IF selectedDisease = race.newer THEN race.newer
                                    ELSE Undefined])
       ELSE /\ scanRun' = [scanRun EXCEPT !.call = c]
            /\ UNCHANGED <<selectedDisease, isScanning, race>>
    /\ NoAlert
    /\ UNCHANGED <<coreVars, consultRuns, authVars, store, previewImg, feedVars>>

(* ScanTimer with a catch that also clears the displayed record. *)
ScanTimerClearsReport ==
    /\ scanRun.stage = "inference"
    /\ scanRun.call.pc = "waiting"
    /\ LET c == OnTimer(scanRun.call) IN
       IF c.pc = "thrown"
       THEN /\ notice' = c.error.message
            /\ isScanning' = FALSE
            /\ scanRun' = IdleScan
            /\ selectedDisease' = JNull
            /\ race' = RaceOver
       ELSE /\ scanRun' = [scanRun EXCEPT !.call = c]
            /\ NoAlert
            /\ UNCHANGED <<isScanning, selectedDisease, race>>
    /\ UNCHANGED <<coreVars, consultRuns, authVars, store, previewImg, feedVars>>

(* The scan's backoff timer fires. When callGemini throws: catch       *)
(* alerts err.message, finally clears isScanning.                      *)
ScanTimer ==
    /\ scanRun.stage = "inference"
    /\ scanRun.call.pc = "waiting"
    /\ LET c == OnTimer(scanRun.call) IN
       IF c.pc = "thrown"
       THEN /\ notice' = c.error.message
            /\ isScanning' = FALSE
            /\ scanRun' = IdleScan
            /\ race' = RaceOver
       ELSE /\ scanRun' = [scanRun EXCEPT !.call = c]
            /\ NoAlert
            /\ UNCHANGED <<isScanning, race>>
    /\ UNCHANGED <<coreVars, consultRuns, authVars, store, selectedDisease, previewImg, feedVars>>

(* AddDocResolve with a catch that takes the displayed record back. *)
AddDocResolveRollsBack(ok) ==
    /\ scanRun.stage = "saving"
    /\ IF ok
       THEN /\ store' = [store EXCEPT ![scanRun.user] =
                            Append(@, ScanDoc(scanRun.call.result, scanRun.img))]
            /\ NoAlert
            /\ UNCHANGED selectedDisease
       ELSE /\ notice' = "Missing or insufficient permissions."
            /\ selectedDisease' = JNull
            /\ UNCHANGED store
    /\ isScanning' = FALSE
    /\ scanRun' = IdleScan
    /\ race' = RaceOver
    /\ UNCHANGED <<coreVars, consultRuns, authVars, previewImg, feedVars>>

(* addDoc resolves: the document is in the collection of the user the  *)
(* handler closed over; or it rejects and catch alerts. Then finally,  *)
(* and the handler's frame is gone.                                    *)
AddDocResolve(ok) ==
    /\ scanRun.stage = "saving"
    /\ IF ok
       THEN /\ store' = [store EXCEPT ![scanRun.user] =
                            Append(@, ScanDoc(scanRun.call.result, scanRun.img))]
            /\ NoAlert
       ELSE /\ notice' = "Missing or insufficient permissions."
            /\ UNCHANGED store
    /\ isScanning' = FALSE
    /\ scanRun' = IdleScan
    /\ race' = RaceOver
    /\ UNCHANGED <<coreVars, consultRuns, authVars, selectedDisease, previewImg, feedVars>>

(* Consult AI with a non-empty answer to prompt(): callGemini(q) is    *)
(* started with no image and joins the running consultations; nothing  *)
(* else is set.                                                        *)
ConsultClick ==
    /\ AppScreen
    /\ BagCardinality(consultRuns) < MaxConsults
    /\ consultRuns' = consultRuns (+) SetToBag({CallGemini(ConsultPrompt, NoImage)})
    /\ race' = IF scanRun.stage = "inference"
               THEN Recorded([race EXCEPT !.after = @ (+) SetToBag({CallGemini(ConsultPrompt, NoImage)})])
               ELSE race
    /\ NoAlert
    /\ UNCHANGED <<coreVars, scanRun, authVars, selectedDisease, isScanning, previewImg, store, feedVars>>

(* The request of a running consultation c resolves. On a return the   *)
(* promise is fulfilled, .then(setSelectedDisease) runs and nothing of *)
(* the call is left.                                                   *)
ConsultRespond(c, resp) ==
    /\ BagIn(c, consultRuns)
    /\ c.pc = "fetching"
    /\ LET r == OnResponse(c, resp) IN
       /\ consultRuns' = IF r.pc = "returned"
                         THEN consultRuns (-) SetToBag({c})
                         ELSE (consultRuns (-) SetToBag({c})) (+) SetToBag({r})
       /\ selectedDisease' = IF r.pc = "returned" THEN r.result ELSE selectedDisease
       /\ \E later \in StartedAfterScan(c) :
             race' = Recorded([race EXCEPT
                        !.after = AfterStep(c, r, r.pc # "returned", later),
                        !.newer = IF r.pc = "returned" /\ scanRun.stage = "inference"
                                  THEN (IF later THEN r.result ELSE Undefined)
                                  ELSE @])
    /\ NoAlert
    /\ UNCHANGED <<coreVars, scanRun, authVars, store, isScanning, previewImg, feedVars>>

(* The backoff timer of a running consultation c fires. A throw        *)
(* rejects the promise, which has no handler: nothing is set and       *)
(* nothing of the call is left.                                        *)
ConsultTimer(c) ==
    /\ BagIn(c, consultRuns)
    /\ c.pc = "waiting"
    /\ LET r == OnTimer(c) IN
       /\ consultRuns' = IF r.pc = "thrown"
                         THEN consultRuns (-) SetToBag({c})
                         ELSE (consultRuns (-) SetToBag({c})) (+) SetToBag({r})
       /\ \E later \in StartedAfterScan(c) :
             race' = Recorded([race EXCEPT !.after = AfterStep(c, r, r.pc # "thrown", later)])
    /\ NoAlert
    /\ UNCHANGED <<coreVars, scanRun, authVars, selectedDisease, isScanning, previewImg, store, feedVars>>

(* snapshot.docs.map(doc => ({ id: doc.id, ...doc.data() })) for the   *)
(* collection of user u; a document's id is given as its place in its  *)
(* owner's collection.                                                 *)
SnapshotDocs(st, u) == [k \in 1..Len(st[u]) |-> [id |-> <<u, k>>, doc |-> st[u][k]]]

(* The listener on the collection of user u delivers a snapshot: the   *)
(* first one, or one after a change.                                   *)
Snapshot(u) ==
    /\ u \in listeners
    /\ scans' = SnapshotDocs(store, u)
    /\ NoAlert
    /\ UNCHANGED <<coreVars, histVars, runVars, authVars, selectedDisease, isScanning, previewImg, store,
                   listeners, mounted>>

(* The component is unmounted: the cleanup of the Firestore Effect's   *)
(* last run and of the Auth Effect run, and the component's state is   *)
(* discarded. What a handler or a request still in flight does after   *)
(* that is not followed.                                               *)
Unmount ==
    /\ mounted
    /\ mounted' = FALSE
    /\ listeners' = EffectListeners(listeners, user, NoUser)
    /\ user' = NoUser
    /\ authLoading' = TRUE
    /\ view' = "login"
    /\ scans' = <<>>
    /\ selectedDisease' = JNull
    /\ isScanning' = FALSE
    /\ previewImg' = NoImage
    /\ scanRun' = IdleScan
    /\ consultRuns' = EmptyBag
    /\ loginPending' = FALSE
    /\ race' = RaceOver
    /\ NoAlert
    /\ UNCHANGED <<coreVars, authUser, lastUid, authReady, store>>

Next ==
    \/ \E token \in BOOLEAN : AuthReady(token)
    \/ HandleLogin
    \/ \E ok \in BOOLEAN : LoginResolve(ok)
    \/ GuestAccess
    \/ SignOut
    \/ \E img \in {LeafImage} : OnFileChange(img)
    \/ \E d \in Encyclopedia : SelectLibraryEntry(d)
    \/ CloseReport
    \/ HandleScan
    \/ \E resp \in AppResponses : ScanRespond(resp)
    \/ ScanTimer
    \/ \E ok \in BOOLEAN : AddDocResolve(ok)
    \/ ConsultClick
    \/ \E c \in BagToSet(consultRuns), resp \in AppResponses : ConsultRespond(c, resp)
    \/ \E c \in BagToSet(consultRuns) : ConsultTimer(c)

(* The application's handlers and effects. *)
Spec == Init /\ [][Next]_vars

(* The application's handlers and effects, with the history of the    *)
(* race between the scan and the consultations.                        *)
SpecRace == InitRace /\ [][Next]_vars

NextFeed ==
    \/ Next
    \/ \E u \in Uids : Snapshot(u)
    \/ Unmount

(* The application with the deliveries of its snapshot listeners and   *)
(* the disposal of the component.                                      *)
SpecFeed == Init /\ [][NextFeed]_vars

(* ------------------------------------------------------------------ *)
(* The client on its own, driven by a stub upstream and a fake clock:  *)
(* one invocation at a time, kept whole after it settles.              *)
(* ------------------------------------------------------------------ *)

CoreInvoke(imageData) ==
    /\ Settled(core)
    /\ core' = CallGemini(ScanPrompt, imageData)
    /\ UNCHANGED appVars

CoreRespond(resp) ==
    /\ core.pc = "fetching"
    /\ core' = OnResponse(core, resp)
    /\ UNCHANGED appVars

CoreTimer ==
    /\ core.pc = "waiting"
    /\ core' = OnTimer(core)
    /\ UNCHANGED appVars

NextCore ==
    \/ \E imageData \in Images : CoreInvoke(imageData)
    \/ \E resp \in Responses : CoreRespond(resp)
    \/ CoreTimer

SpecCore == Init /\ [][NextCore]_vars

(* One invocation of the client, from the call to its settling, in     *)
(* which every fetch that is awaited is answered or rejected in the    *)
(* end and every backoff timer that is set fires in the end.           *)
CoreInvokeOnce(imageData) ==
    /\ core.pc = "idle"
    /\ CoreInvoke(imageData)

NextCoreOnce ==
    \/ \E imageData \in Images : CoreInvokeOnce(imageData)
    \/ \E resp \in Responses : CoreRespond(resp)
    \/ CoreTimer

SpecCoreFair ==
    /\ Init
    /\ [][NextCoreOnce]_vars
    /\ WF_vars(\E resp \in Responses : CoreRespond(resp))
    /\ WF_vars(CoreTimer)

(* ------------------------------------------------------------------ *)
(* Claims about the client (checked under SpecCore, C13 under         *)
(* SpecCoreFair).                                                      *)
(* ------------------------------------------------------------------ *)

(* Whether the k-th response delivered to the invocation failed its attempt. *)
AttemptFailed(c, k) == TryBody(c.responses[k]).threw

AllFailed(c) == \A k \in 1..Len(c.responses) : AttemptFailed(c, k)

(* C1: bounded attempts. An invocation never sends a 6th request; it   *)
(* throws only after exactly 5 requests that all failed; and once 5    *)
(* responses have all failed it is waiting for the last timer or has   *)
(* thrown "AI Service Unavailable", with exactly 5 requests sent.       *)
C1_BoundedAttempts ==
    /\ Len(core.requests) <= 5
    /\ core.pc = "thrown" =>
          /\ Len(core.requests) = 5
          /\ Len(core.responses) = 5
          /\ AllFailed(core)
          /\ core.error.message = "AI Service Unavailable"
          /\ core.result = Undefined
    /\ (Len(core.responses) = 5 /\ AllFailed(core)) =>
          /\ core.pc \in {"waiting", "thrown"}
          /\ Len(core.requests) = 5

C1_Witness ==
    /\ core.pc = "thrown"
    /\ Len(core.requests) = 5
    /\ AllFailed(core)

(* The value JSON.parse gives for the inner payload of a response. *)
InnerValue(resp) ==
    IF /\ resp.net = "ok"
       /\ resp.body.valid
       /\ resp.body.candidates # <<>>
       /\ resp.body.candidates[1] # <<>>
       /\ resp.body.candidates[1][1][1] = "text"
    THEN JSONParse(resp.body.candidates[1][1][2]).value
    ELSE Undefined

(* C2: early success stops retries. An invocation that returned did so *)
(* on its k-th response, k in 1..5, after k-1 failed attempts; it sent *)
(* exactly k requests, set exactly k-1 timers (none after attempt k,   *)
(* none at all for k = 1), has no request in flight, and its result is *)
(* the parsed inner payload of the k-th response, field for field.     *)
C2_EarlySuccess ==
    core.pc = "returned" =>
        LET k == Len(core.responses) IN
        /\ k \in 1..5
        /\ \A j \in 1..(k - 1) : AttemptFailed(core, j)
        /\ ~AttemptFailed(core, k)
        /\ Len(core.requests) = k
        /\ Len(core.delays) = k - 1
        /\ core.fired = k - 1
        /\ core.inflight = 0
        /\ core.result = InnerValue(core.responses[k])
        /\ core.responses[k] = ReplyText(200, TextEarlyBlight) => core.result = EarlyBlight

C2_Witness ==
    /\ core.pc = "returned"
    /\ Len(core.requests) = 3
    /\ AttemptFailed(core, 1)
    /\ AttemptFailed(core, 2)
    /\ core.result = EarlyBlight
    /\ core.delays = <<1000, 2000>>

(* C3: backoff growth. The timer set after failed attempt n is         *)
(* 1000 * 2^(n-1) ms, every later request is preceded by the timer of  *)
(* the attempt before it, and the four waits between five attempts are *)
(* 1000, 2000, 4000, 8000 ms.                                          *)
C3_BackoffGrowth ==
    /\ \A n \in 1..Len(core.delays) : core.delays[n] = 1000 * (2 ^ (n - 1))
    /\ Len(core.delays) >= Len(core.requests) - 1
    /\ \A n \in 2..Len(core.delays) : core.delays[n] = 2 * core.delays[n - 1]
    /\ Len(core.requests) = 5 => SubSeq(core.delays, 1, 4) = <<1000, 2000, 4000, 8000>>

C3_Witness ==
    /\ Len(core.requests) = 5
    /\ core.pc = "fetching"
    /\ core.delays = <<1000, 2000, 4000, 8000>>

(* The fields a DiagnosisRecord always has. *)
RequiredFields == {"name", "plant", "symptoms", "treatment"}

(* A DiagnosisRecord: an object whose name, plant, symptoms, treatment *)
(* are present as strings and whose severity is a string or absent.    *)
WellShaped(v) ==
    /\ v.kind = "object"
    /\ \A f \in RequiredFields : <<f, "string">> \in { <<t[1], t[2]>> : t \in v.fields }
    /\ \A t \in v.fields : t[1] = "severity" => t[2] = "string"

(* C4: success shape. Every value a successful invocation returns is a *)
(* well-shaped DiagnosisRecord.                                        *)
C4_SuccessShape == core.pc = "returned" => WellShaped(core.result)

(* Whether a response is a transport success whose structured payload  *)
(* is malformed: the envelope parses, but the first candidate's text   *)
(* is absent, is not JSON, or is JSON that is not an object.           *)
MalformedPayload(resp) ==
    /\ resp.net = "ok"
    /\ resp.body.valid
    /\ InnerValue(resp).kind # "object"

(* C5: a malformed structured payload is never returned: an invocation *)
(* whose latest response has one is retrying or has failed.            *)
C5_MalformedRetried ==
    \A k \in 1..Len(core.responses) :
        MalformedPayload(core.responses[k]) =>
            /\ AttemptFailed(core, k)
            /\ k = Len(core.responses) => core.pc \in {"waiting", "fetching", "thrown"}

(* C6: a response with a non-2xx status is a failed attempt: it never  *)
(* yields a return, and it is followed by the backoff timer.           *)
C6_NonSuccessStatusFails ==
    \A k \in 1..Len(core.responses) :
        (core.responses[k].net = "ok" /\ core.responses[k].status \notin 200..299) =>
            /\ AttemptFailed(core, k)
            /\ Len(core.delays) >= k
            /\ k = Len(core.responses) => core.pc # "returned"

(* C7: the terminal error carries the failure of the 5th attempt as    *)
(* its cause.                                                          *)
C7_TerminalCause ==
    core.pc = "thrown" =>
        /\ core.error.cause # NoError
        /\ core.error.cause = TryBody(core.responses[5]).e

(* C8: sequential retries. At most one request is in flight, exactly   *)
(* while the invocation awaits fetch; the k-th request carries attempt *)
(* index k-1; and request k+1 is sent only after k responses were      *)
(* delivered, all k failed, and k timers were set and fired.           *)
C8_Sequential ==
    /\ core.inflight \in {0, 1}
    /\ core.inflight = Len(core.requests) - Len(core.responses)
    /\ (core.pc = "fetching") <=> (core.inflight = 1)
    /\ \A k \in 1..Len(core.requests) : core.requests[k].attempt = k - 1
    /\ \A k \in 1..(Len(core.requests) - 1) :
          /\ Len(core.responses) >= k
          /\ AttemptFailed(core, k)
          /\ Len(core.delays) >= k
          /\ core.fired >= k

C8_Witness ==
    /\ core.pc = "fetching"
    /\ Len(core.requests) = 5
    /\ core.fired = 4

(* The first response of a log that does not fail, or 0. *)
FirstSuccess(log) ==
    IF \E k \in 1..Len(log) : ~TryBody(log[k]).threw
    THEN CHOOSE k \in 1..Len(log) :
            /\ ~TryBody(log[k]).threw
            /\ \A j \in 1..(k - 1) : TryBody(log[j]).threw
    ELSE 0

(* What a settled invocation did, as a function of the responses it    *)
(* was given and of nothing else.                                      *)
Expected(log) ==
    LET k == FirstSuccess(log) IN
    IF k > 0
    THEN [outcome |-> "returned", value |-> InnerValue(log[k]), attempts |-> k,
          delays |-> [n \in 1..(k - 1) |-> 1000 * (2 ^ (n - 1))]]
    ELSE [outcome |-> "thrown", value |-> Undefined, attempts |-> 5,
          delays |-> [n \in 1..5 |-> 1000 * (2 ^ (n - 1))]]

Observed(c) ==
    [outcome |-> c.pc, value |-> c.result, attempts |-> Len(c.requests),
     delays |-> c.delays]

(* C9: text-only path. Every request of an invocation without an image *)
(* carries exactly the one text part of its prompt and no inlineData   *)
(* part, every request of an invocation with an image carries the text *)
(* part and one inlineData part, and what a settled invocation did     *)
(* (outcome, value, number of requests, timers) is the same function   *)
(* of the responses it was given whether or not it had an image.       *)
C9_TextOnlyPath ==
    /\ \A k \in 1..Len(core.requests) :
          LET parts == core.requests[k].payload.parts IN
          /\ parts[1] = TextPart(core.prompt)
          /\ core.imageData = NoImage => parts = <<TextPart(core.prompt)>>
          /\ core.imageData # NoImage => (Len(parts) = 2 /\ parts[2][1] = "inlineData")
    /\ core.pc \in {"returned", "thrown"} => Observed(core) = Expected(core.responses)

C9_Witness ==
    /\ core.imageData = NoImage
    /\ core.pc = "returned"
    /\ Len(core.requests) = 2
    /\ core.requests[2].payload.parts = <<TextPart(ScanPrompt)>>

RECURSIVE SumSeq(_)
SumSeq(q) == IF q = <<>> THEN 0 ELSE q[1] + SumSeq(Tail(q))

(* C19: backoff after the final attempt. Every failed attempt i, the   *)
(* fifth included, is followed by a wait of 1000 * 2^i ms; an          *)
(* exhausted invocation has set exactly the five waits 1000, 2000,     *)
(* 4000, 8000, 16000 (31000 ms in all) and all five have elapsed; and  *)
(* after the fifth failure the error is not raised while the 16000 ms  *)
(* wait has not elapsed.                                               *)
C19_BackoffAfterFinal ==
    /\ Len(core.delays) = Cardinality({k \in 1..Len(core.responses) : AttemptFailed(core, k)})
    /\ \A k \in 1..Len(core.delays) : core.delays[k] = 1000 * 2 ^ (k - 1)
    /\ core.pc = "thrown" =>
          /\ core.delays = <<1000, 2000, 4000, 8000, 16000>>
          /\ SumSeq(core.delays) = 31000
          /\ core.fired = 5
    /\ (Len(core.responses) = 5 /\ AllFailed(core) /\ core.fired < 5) =>
          /\ core.pc = "waiting"
          /\ core.delays[5] = 16000
          /\ core.error = NoCause

(* The fifth attempt has failed and the invocation sits in the         *)
(* 16000 ms wait, the error not yet raised.                            *)
C19_Witness ==
    /\ core.pc = "waiting"
    /\ Len(core.responses) = 5
    /\ core.delays = <<1000, 2000, 4000, 8000, 16000>>
    /\ core.fired = 4

(* Attempting(n): the invocation awaits the response of attempt n or   *)
(* the backoff timer after it.                                         *)
Attempting(c) == c.pc \in {"fetching", "waiting"}

(* C13: termination of the retry state machine. While attempting, the  *)
(* attempt index is within 0..4; when every attempt and every backoff  *)
(* wait resolves in the end (SpecCoreFair), an invocation that was     *)
(* made reaches Succeeded or Failed, and once there it never changes;  *)
(* and an attempt that is awaited is left only by its response being   *)
(* delivered: there is no timeout that would end it otherwise.         *)
C13_Termination ==
    /\ [](Attempting(core) => core.i \in 0..4)
    /\ Attempting(core) ~> core.pc \in {"returned", "thrown"}
    /\ [][core.pc \in {"returned", "thrown"} => core' = core]_vars
    /\ [][(core.pc = "fetching" /\ core' # core) =>
              Len(core'.responses) = Len(core.responses) + 1]_vars

(* The invocation succeeded on attempt 4, after four failed attempts   *)
(* and their waits.                                                    *)
C13_Witness ==
    /\ core.pc = "returned"
    /\ core.i = 4
    /\ core.fired = 4
    /\ Len(core.responses) = 5

(* ------------------------------------------------------------------ *)
(* Claims about the application (checked under Spec).                  *)
(* ------------------------------------------------------------------ *)

(* The step in which the scan's callGemini returns: only a return takes *)
(* handleScan from an in-flight request out of the inference stage.     *)
ScanSucceeds ==
    /\ scanRun.stage = "inference"
    /\ scanRun.call.pc = "fetching"
    /\ scanRun'.stage # "inference"
    /\ mounted'

(* The step in which the callGemini of a running consultation c       *)
(* returns: c awaits its request and leaves the running consultations  *)
(* (a failed request leaves it among them, waiting).                   *)
ConsultSucceeds(c) ==
    /\ c.pc = "fetching"
    /\ consultRuns' = consultRuns (-) SetToBag({c})
    /\ mounted'

(* After the step the displayed slot holds, unchanged, the value the   *)
(* call returns on some response.                                      *)
DisplaysResultOf(call) ==
    \E resp \in Responses :
        /\ OnResponse(call, resp).pc = "returned"
        /\ selectedDisease' = OnResponse(call, resp).result

(* The step sends an addDoc to the collection of user u. *)
AppendSentFor(u) ==
    /\ scanRun.stage # "saving"
    /\ scanRun'.stage = "saving"
    /\ scanRun'.user = u

AppendSent == scanRun.stage # "saving" /\ scanRun'.stage = "saving"

(* C10 as stated: at either entry point a successful result is written *)
(* to selectedDisease and, when a user is signed in, an append to that *)
(* user's collection follows; with no user nothing is appended.        *)
C10_ResultRouting ==
    [][ /\ ScanSucceeds =>
              /\ DisplaysResultOf(scanRun.call)
              /\ user # NoUser => AppendSentFor(user)
              /\ user = NoUser => ~AppendSent
        /\ \A c \in BagToSet(consultRuns) : ConsultSucceeds(c) =>
              /\ DisplaysResultOf(c)
              /\ user # NoUser => AppendSentFor(user)
              /\ user = NoUser => ~AppendSent
      ]_vars

(* C10 amended: a successful scan writes its result to selectedDisease *)
(* and sends an append of it to the collection of the user who was     *)
(* signed in when the scan was started (there always is one), whoever  *)
(* is signed in by then; a successful consultation writes its result   *)
(* to selectedDisease and appends nothing; and a collection changes    *)
(* only by that append of the scan's document being acknowledged.      *)
C10_RoutingAmended ==
    [][ /\ ScanSucceeds =>
              /\ DisplaysResultOf(scanRun.call)
              /\ selectedDisease' = scanRun'.call.result
              /\ scanRun.user # NoUser
              /\ AppendSentFor(scanRun.user)
              /\ scanRun'.img = scanRun.img
              /\ store' = store
        /\ \A c \in BagToSet(consultRuns) : ConsultSucceeds(c) =>
              /\ DisplaysResultOf(c)
              /\ ~AppendSent
              /\ store' = store
        /\ store' # store =>
              /\ scanRun.stage = "saving"
              /\ store' = [store EXCEPT ![scanRun.user] =
                              Append(@, [data |-> scanRun.call.result.fields,
                                         hasTimestamp |-> TRUE,
                                         imageUrl |-> scanRun.img.segs])]
      ]_vars

C10_Witness ==
    /\ \E u \in Uids : Len(store[u]) = 1 /\ store[u][1].data = EarlyBlight.fields
    /\ selectedDisease = LateBlight
    /\ scanRun.stage = "idle"
    /\ notice = "none"

(* The step in which the scan's callGemini throws: only a throw takes  *)
(* handleScan from a backoff wait straight out of the inference stage. *)
ScanFails ==
    /\ scanRun.stage = "inference"
    /\ scanRun.call.pc = "waiting"
    /\ scanRun'.stage # "inference"
    /\ mounted'

(* The step in which the callGemini of a running consultation c       *)
(* throws: c is in a backoff wait and leaves the running consultations *)
(* (a timer that starts the next attempt leaves it among them).        *)
ConsultFails(c) ==
    /\ c.pc = "waiting"
    /\ consultRuns' = consultRuns (-) SetToBag({c})
    /\ mounted'

(* C11: visible failure. The step in which the callGemini of a scan or *)
(* of a consultation ends in terminal failure raises a notice with the *)
(* error's message, and leaves the user able to start that kind of     *)
(* invocation afresh: the scan's button is enabled again.              *)
C11_VisibleFailure ==
    [][ /\ ScanFails =>
              /\ notice' = "AI Service Unavailable"
              /\ ~isScanning'
        /\ \A c \in BagToSet(consultRuns) : ConsultFails(c) =>
              notice' = "AI Service Unavailable"
      ]_vars

(* C12: all-or-nothing on failure. In the step in which the callGemini *)
(* of a scan or of a consultation ends in terminal failure the caller  *)
(* is handed no record (the call throws, its result is undefined),     *)
(* selectedDisease keeps its value, and no record is appended and no   *)
(* append is sent.                                                     *)
C12_AllOrNothing ==
    [][ /\ ScanFails =>
              /\ OnTimer(scanRun.call).pc = "thrown"
              /\ OnTimer(scanRun.call).result = Undefined
              /\ selectedDisease' = selectedDisease
              /\ store' = store
              /\ ~AppendSent
        /\ \A c \in BagToSet(consultRuns) : ConsultFails(c) =>
              /\ OnTimer(c).pc = "thrown"
              /\ OnTimer(c).result = Undefined
              /\ selectedDisease' = selectedDisease
              /\ store' = store
              /\ ~AppendSent
      ]_vars

(* A scan has just failed for good while a record was displayed, and   *)
(* the record is still displayed.                                      *)
C12_Witness ==
    /\ notice = "AI Service Unavailable"
    /\ scanRun = IdleScan
    /\ selectedDisease = LateBlight
    /\ store = [u \in Uids |-> <<>>]

(* C17: the scanning flag. isScanning is true exactly while a          *)
(* handleScan is in flight (awaiting callGemini or addDoc), so it is   *)
(* false again in the state any path out of the handler leads to; and  *)
(* while there is no preview image no step starts a scan: the scan's   *)
(* state and the flag stay as they are and no request is sent for it.  *)
C17_ScanningFlag ==
    /\ [](isScanning <=> scanRun.stage # "idle")
    /\ [][ (scanRun.stage # "idle" /\ scanRun'.stage = "idle") => ~isScanning' ]_vars
    /\ [][ ~IsImage(previewImg) =>
              /\ scanRun' = scanRun
              /\ isScanning' = isScanning
              /\ scanRun'.call.requests = <<>> ]_vars

(* A scan has run into exhaustion and the flag is down again, the      *)
(* preview still there.                                                *)
C17_Witness ==
    /\ notice = "AI Service Unavailable"
    /\ scanRun.stage = "idle"
    /\ ~isScanning
    /\ IsImage(previewImg)

(* C18: the login's loading state clears. Once the sign-in that        *)
(* handleLogin awaits has settled, with success or with failure (and   *)
(* the initial auth state has been delivered), authLoading is false:   *)
(* the spinner is up only while something that will clear it is still  *)
(* pending.                                                            *)
C18_LoadingClears ==
    (authReady /\ ~loginPending) => ~authLoading

(* The step in which the scan's addDoc is rejected: the handler leaves *)
(* the saving stage and the collections are as they were.              *)
AppendFails ==
    /\ scanRun.stage = "saving"
    /\ scanRun'.stage = "idle"
    /\ store' = store
    /\ mounted'

(* What C20 says of that step besides the displayed slot: the failure  *)
(* is reported, isScanning is false again, and nothing is retried: the *)
(* handler is gone, with no request and no append in flight.           *)
ReportedAndSettled ==
    /\ notice' = "Missing or insufficient permissions."
    /\ ~isScanning'
    /\ scanRun' = IdleScan
    /\ consultRuns' = consultRuns

C14_OutOfOrder ==
    [][ /\ scanRun' # scanRun => consultRuns' = consultRuns
        /\ consultRuns' # consultRuns => scanRun' = scanRun
        /\ ScanSucceeds =>
              /\ DisplaysResultOf(scanRun.call)
              /\ selectedDisease' = scanRun'.call.result
              /\ race'.overwrote = (IF selectedDisease = race.newer THEN race.newer ELSE Undefined)
        /\ \A c \in BagToSet(consultRuns) : ConsultSucceeds(c) => DisplaysResultOf(c)
        /\ race'.newer # race.newer /\ race'.newer # Undefined =>
              /\ scanRun.stage = "inference"
              /\ \E c \in BagToSet(race.after) :
                    /\ ConsultSucceeds(c)
                    /\ selectedDisease' = race'.newer
      ]_vars

(* Two invocations were in flight at once; the consultation, started   *)
(* after the scan, delivered Late Blight first; then the scan          *)
(* delivered Early Blight, which replaced it in the displayed slot.    *)
C14_Witness ==
    /\ scanRun.stage = "saving"
    /\ race.overwrote = LateBlight
    /\ scanRun.call.result = EarlyBlight
    /\ selectedDisease = EarlyBlight

(* ------------------------------------------------------------------ *)
(* The record feed (checked under SpecFeed).                           *)
(* ------------------------------------------------------------------ *)

C16_HistoryOfCurrentUser ==
    \A k \in 1..Len(scans) : user # NoUser /\ scans[k].id[1] = user

====
